---- MODULE Spec2Model ----
(***************************************************************************)
(* Merton Council bin-collection scrapers.                                 *)
(*                                                                         *)
(*   ICS variant   custom_components/.../councils copy/MertonCouncil.py    *)
(*   page variant  uk_bin_collection/.../councils/MertonCouncil.py         *)
(*                                                                         *)
(* Text is modelled as a sequence of tokens [k, v]: a number, a weekday    *)
(* name, a month name, a literal separator, a filler prefix ("on ", "is ", *)
(* "date ") or an unrecognised word.  A datetime is [year, month, day,     *)
(* tod], tod = 0 for 00:00:00.000000 and tod = 1 for any later instant of  *)
(* the day.  Years are four-digit years.                                   *)
(***************************************************************************)
EXTENDS Integers, Sequences, FiniteSets, TLC

VARIABLES
    pc,            \* position of the running parse_data call
    now,           \* the clock datetime.now() reads
    kwargs,        \* page variant: [postcode, uprn] keyword arguments
    driver,        \* page variant: "none" | "open" | "quit"
    quits,         \* page variant: number of driver.quit() calls
    pending,       \* page variant: an exception is propagating to finally
    page_source,   \* page variant: [ok, services] read from the driver
    events,        \* ICS variant: calendar.events, in iteration order
    idx,           \* loop position in events / waste_services
    current_year,  \* page variant: datetime.now().year, line 129
    bins,          \* data["bins"]
    raw,           \* the text under conversion (date text, event name)
    resolved,      \* [ok, dt, fmt]: next_collection_date and the format used
    outcome        \* "none" | "returned" | "raised"

vars == <<pc, now, kwargs, driver, quits, pending, page_source, events, idx,
          current_year, bins, raw, resolved, outcome>>

----------------------------------------------------------------------------
(* Values of the variables a specification does not use *)

NoKwargs == [postcode |-> FALSE, uprn |-> FALSE]
NoPage   == [ok |-> FALSE, services |-> <<>>]

----------------------------------------------------------------------------
(* Tokens *)

Num(n)  == [k |-> "num",  v |-> n]
Wd(n)   == [k |-> "wd",   v |-> n]
Mon(n)  == [k |-> "mon",  v |-> n]
Lit(n)  == [k |-> "lit",  v |-> n]
Pre(n)  == [k |-> "pre",  v |-> n]
Word(n) == [k |-> "word", v |-> n]

Friday == Wd(5)

Slash == Lit(1)
Dash  == Lit(2)

----------------------------------------------------------------------------
(* Calendar *)

IsLeap(y) == (y % 4 = 0 /\ y % 100 # 0) \/ y % 400 = 0

DaysInMonth(y, m) ==
    IF m = 2 THEN (IF IsLeap(y) THEN 29 ELSE 28)
    ELSE IF m \in {4, 6, 9, 11} THEN 30 ELSE 31

ValidDate(y, m, d) ==
    /\ y \in 1..9999
    /\ m \in 1..12
    /\ d >= 1
    /\ d <= DaysInMonth(y, m)

DateTime(y, m, d, t) == [year |-> y, month |-> m, day |-> d, tod |-> t]

NoDate == DateTime(0, 0, 0, 0)

\* a < b on datetimes
Before(a, b) ==
    \/ a.year < b.year
    \/ a.year = b.year /\ a.month < b.month
    \/ a.year = b.year /\ a.month = b.month /\ a.day < b.day
    \/ a.year = b.year /\ a.month = b.month /\ a.day = b.day /\ a.tod < b.tod

\* a.date() >= b.date()
DateGeq(a, b) ==
    \/ a.year > b.year
    \/ a.year = b.year /\ a.month > b.month
    \/ a.year = b.year /\ a.month = b.month /\ a.day >= b.day

----------------------------------------------------------------------------
(* datetime.strptime / strftime *)

DefaultYear == 1900

TokMatches(tok, dir) ==
    CASE dir = "%A" -> tok.k = "wd"
      [] dir = "%B" -> tok.k = "mon"
      [] dir = "%d" -> tok.k = "num" /\ tok.v \in 1..31
      [] dir = "%m" -> tok.k = "num" /\ tok.v \in 1..12
      [] dir = "%Y" -> tok.k = "num" /\ tok.v \in 1000..9999
      [] dir = "/"  -> tok = Slash
      [] dir = "-"  -> tok = Dash
      [] OTHER      -> FALSE

Field(text, fmt, dirs, default) ==
    IF \E i \in 1..Len(fmt) : fmt[i] \in dirs
    THEN text[CHOOSE i \in 1..Len(fmt) : fmt[i] \in dirs].v
    ELSE default

\* datetime.strptime(text, fmt): [ok, dt]; ok = FALSE stands for ValueError
Strptime(text, fmt) ==
    IF Len(text) = Len(fmt) /\ \A i \in 1..Len(fmt) : TokMatches(text[i], fmt[i])
    THEN LET y == Field(text, fmt, {"%Y"}, DefaultYear)
             m == Field(text, fmt, {"%B", "%m"}, 1)
             d == Field(text, fmt, {"%d"}, 1)
         IN  IF ValidDate(y, m, d)
             THEN [ok |-> TRUE, dt |-> DateTime(y, m, d, 0)]
             ELSE [ok |-> FALSE, dt |-> NoDate]
    ELSE [ok |-> FALSE, dt |-> NoDate]

\* the shared output format, "%d/%m/%Y"
date_format == <<"%d", "/", "%m", "/", "%Y">>

\* dt.strftime(date_format)
Strftime(dt) == <<Num(dt.day), Slash, Num(dt.month), Slash, Num(dt.year)>>

----------------------------------------------------------------------------
(* Date resolver of the page variant, lines 120-127 and 174-200 *)

possible_date_formats ==
    << <<"%A", "%d", "%B", "%Y">>,
       <<"%A", "%d", "%B">>,
       <<"%d", "%B", "%Y">>,
       <<"%d", "%B">>,
       <<"%d", "/", "%m", "/", "%Y">>,
       <<"%d", "-", "%m", "-", "%Y">> >>

\* mutant: the year directive is never recognised
HasYear_Never(fmt) == FALSE

HasYear(fmt) == \E i \in 1..Len(fmt) : fmt[i] = "%Y"

\* number of characters of a token; Word(n) is an unrecognised word of n letters
TokLen(tok) ==
    CASE tok.k = "num"  -> (IF tok.v < 10 THEN 1 ELSE IF tok.v < 100 THEN 2
                            ELSE IF tok.v < 1000 THEN 3 ELSE 4)
      [] tok.k = "wd"   -> 6
      [] tok.k = "mon"  -> 3
      [] tok.k = "lit"  -> 1
      [] tok.k = "pre"  -> 2
      [] OTHER          -> tok.v

RECURSIVE CharLen(_)
CharLen(text) ==
    IF text = <<>> THEN 0
    ELSE TokLen(Head(text)) + CharLen(Tail(text))
         + (IF Len(text) > 1 /\ Head(text).k # "lit" /\ text[2].k # "lit"
            THEN 1 ELSE 0)

\* lines 175-177: each filler prefix is tried once, in this order
Prefixes == <<Pre(1), Pre(2), Pre(3)>>

RECURSIVE StripPrefixes(_, _)
StripPrefixes(text, i) ==
    IF i > Len(Prefixes) THEN text
    ELSE IF text # <<>> /\ Head(text) = Prefixes[i]
         THEN StripPrefixes(Tail(text), i + 1)
         ELSE StripPrefixes(text, i + 1)

\* dt.replace(year=y): [ok, dt]; ok = FALSE stands for ValueError
ReplaceYear(dt, y) ==
    IF ValidDate(y, dt.month, dt.day)
    THEN [ok |-> TRUE, dt |-> [dt EXCEPT !.year = y]]
    ELSE [ok |-> FALSE, dt |-> NoDate]

\* lines 182-197, one pass of the format loop; ok = FALSE is the ValueError path
TryFormat(date_text, fmt, cy, clock) ==
    LET p == Strptime(date_text, fmt)
    IN  IF ~p.ok THEN p
        ELSE IF HasYear(fmt) THEN p
        ELSE LET q == ReplaceYear(p.dt, cy)
             IN  IF ~q.ok THEN q
                 ELSE IF Before(q.dt, clock) THEN ReplaceYear(q.dt, cy + 1)
                 ELSE q

\* lines 179-197: the first format that parses wins
ParseDateText(date_text, cy, clock) ==
    LET hits == {i \in 1..Len(possible_date_formats) :
                    TryFormat(date_text, possible_date_formats[i], cy, clock).ok}
    IN  IF date_text # <<>> /\ CharLen(date_text) > 3 /\ hits # {}
        THEN LET i == CHOOSE j \in hits : \A h \in hits : j <= h
             IN  [ok  |-> TRUE,
                  dt  |-> TryFormat(date_text, possible_date_formats[i], cy, clock).dt,
                  fmt |-> i]
        ELSE [ok |-> FALSE, dt |-> NoDate, fmt |-> 0]

NoResult == [ok |-> FALSE, dt |-> NoDate, fmt |-> 0]

----------------------------------------------------------------------------
(* Records of data["bins"] and the final sort *)

BinRecord(bin_type, dt) == [type |-> bin_type, collectionDate |-> Strftime(dt)]

\* mutant: the date strings are compared as text, day first
SortKey_DayFirst(x) ==
    [ok |-> TRUE,
     dt |-> DateTime(x.collectionDate[1].v, x.collectionDate[3].v,
                     x.collectionDate[5].v, 0)]

\* the sort key: datetime.strptime(x["collectionDate"], date_format)
SortKey(x) == Strptime(x.collectionDate, date_format)

SortKeysOk(b) == \A i \in 1..Len(b) : SortKey(b[i]).ok

\* list.sort is stable: x goes after every element whose key is not greater
InsertByKey(sorted, x) ==
    LET n == Cardinality({i \in 1..Len(sorted) :
                             ~Before(SortKey(x).dt, SortKey(sorted[i]).dt)})
    IN  SubSeq(sorted, 1, n) \o <<x>> \o SubSeq(sorted, n + 1, Len(sorted))

RECURSIVE SortFrom(_, _)
SortFrom(sorted, rest) ==
    IF rest = <<>> THEN sorted
    ELSE SortFrom(InsertByKey(sorted, Head(rest)), Tail(rest))

\* data["bins"].sort(key=...)
SortBins(b) == SortFrom(<<>>, b)

----------------------------------------------------------------------------
(* ICS variant: event names are character sequences; "c" abbreviates the    *)
(* word "collection", so " collection" is the two characters below.         *)

CollectionSuffix == <<" ", "c">>

\* s.replace(" collection", ""): every non-overlapping occurrence, left to right
RECURSIVE RemoveAll(_, _)
RemoveAll(s, old) ==
    IF s = <<>> THEN <<>>
    ELSE IF Len(s) >= Len(old) /\ SubSeq(s, 1, Len(old)) = old
    THEN RemoveAll(SubSeq(s, Len(old) + 1, Len(s)), old)
    ELSE <<Head(s)>> \o RemoveAll(Tail(s), old)

RECURSIVE LStrip(_)
LStrip(s) == IF s # <<>> /\ Head(s) = " " THEN LStrip(Tail(s)) ELSE s

RECURSIVE RStrip(_)
RStrip(s) ==
    IF s # <<>> /\ s[Len(s)] = " " THEN RStrip(SubSeq(s, 1, Len(s) - 1)) ELSE s

\* s.strip()
Strip(s) == RStrip(LStrip(s))

\* line 61
BinTypeOf(name) == Strip(RemoveAll(name, CollectionSuffix))

\* mutant: events dated today are left out
Upcoming_Strict(event, clock) ==
    DateGeq(event.begin, clock) /\ ~DateGeq(clock, event.begin)

\* line 59: event.begin.date() >= today
Upcoming(event, clock) == DateGeq(event.begin, clock)

MaxEvents == 2

FoodCollection      == <<"F", " ", "c">>
Garden              == <<"G">>
FoodCollectionPoint == <<"F", " ", "c", " ", "G">>

EventNames == {FoodCollection, Garden, FoodCollectionPoint}

EventBegins ==
    { DateTime(2024, 10, 31, 1), DateTime(2024, 11, 7, 0),
      DateTime(2024, 12, 31, 1), DateTime(2025, 1, 2, 0) }

IcsEvents == [name : EventNames, begin : EventBegins]

EventLists == UNION {[1..n -> IcsEvents] : n \in 0..MaxEvents}

\* lines 41-45: the download either fails or yields the feed text
IcsFetch ==
    /\ pc = "ics_fetch"
    /\ \/ /\ pc' = "done"
          /\ outcome' = "raised"
       \/ /\ pc' = "ics_calendar"
          /\ UNCHANGED outcome
    /\ UNCHANGED <<now, kwargs, driver, quits, pending, page_source, events, idx,
                   current_year, bins, raw, resolved>>

\* lines 47-54: Calendar(text) either fails or holds the events
IcsCalendar ==
    /\ pc = "ics_calendar"
    /\ \/ /\ pc' = "done"
          /\ outcome' = "raised"
          /\ UNCHANGED <<events, idx>>
       \/ /\ events' \in EventLists
          /\ pc' = "ics_loop"
          /\ idx' = 1
          /\ UNCHANGED outcome
    /\ UNCHANGED <<now, kwargs, driver, quits, pending, page_source,
                   current_year, bins, raw, resolved>>

\* lines 57-69, one event
IcsEvent ==
    /\ pc = "ics_loop"
    /\ idx <= Len(events)
    /\ bins' = IF Upcoming(events[idx], now)
               THEN Append(bins, BinRecord(BinTypeOf(events[idx].name),
                                           events[idx].begin))
               ELSE bins
    /\ idx' = idx + 1
    /\ UNCHANGED <<pc, now, kwargs, driver, quits, pending, page_source, events,
                   current_year, raw, resolved, outcome>>

\* lines 71-77
IcsFinish ==
    /\ pc = "ics_loop"
    /\ idx > Len(events)
    /\ pc' = "done"
    /\ IF bins = <<>>
       THEN outcome' = "raised" /\ UNCHANGED bins
       ELSE IF SortKeysOk(bins)
       THEN outcome' = "returned" /\ bins' = SortBins(bins)
       ELSE outcome' = "raised" /\ UNCHANGED bins
    /\ UNCHANGED <<now, kwargs, driver, quits, pending, page_source, events, idx,
                   current_year, raw, resolved>>

NextIcs == IcsFetch \/ IcsCalendar \/ IcsEvent \/ IcsFinish

----------------------------------------------------------------------------
(* Page variant: the parsed results page                                    *)
(*                                                                          *)
(* A service container is [heading, elements, raises]: heading is the       *)
(* stripped heading text ("none" when no heading element is found, "" when  *)
(* it holds no text), elements are its info elements in document order and  *)
(* raises says that processing the container raises an exception.  An info  *)
(* element is [phrase, colon, tail, has_bold, bold]: whether its text       *)
(* mentions "next collection", whether it holds a colon, the text after the *)
(* colon (or, without one, the text left once the phrase is removed), and   *)
(* its first bold child.                                                    *)

\* lines 160-172
DateTextOf(element) ==
    IF element.colon THEN element.tail
    ELSE IF element.has_bold THEN element.bold
    ELSE element.tail

\* lines 158-198 on one info element
ElementDate(element, cy, clock) ==
    IF element.phrase
    THEN ParseDateText(StripPrefixes(DateTextOf(element), 1), cy, clock)
    ELSE NoResult

\* lines 149-200: the first info element that yields a date ends the scan
RECURSIVE NextCollectionDate(_, _, _)
NextCollectionDate(elements, cy, clock) ==
    IF elements = <<>> THEN NoResult
    ELSE IF ElementDate(Head(elements), cy, clock).ok
    THEN ElementDate(Head(elements), cy, clock)
    ELSE NextCollectionDate(Tail(elements), cy, clock)

\* lines 132-213: what one container appends to data["bins"]
ServiceRecords(service, cy, clock) ==
    IF service.raises THEN <<>>
    ELSE IF service.heading = "none" THEN <<>>
    ELSE IF service.heading = "" THEN <<>>
    ELSE LET next_collection_date == NextCollectionDate(service.elements, cy, clock)
         IN  IF next_collection_date.ok
             THEN <<BinRecord(service.heading, next_collection_date.dt)>>
             ELSE <<>>

NoiseHeading == "Download your collection schedule"

TextNov7    == <<Friday, Num(7), Mon(11)>>
TextJan2    == <<Num(2), Slash, Num(1), Slash, Num(2025)>>
TextDec31   == <<Num(31), Mon(12), Num(2024)>>
TextUnknown == <<Word(4)>>

AfterColon(text) ==
    [phrase |-> TRUE, colon |-> TRUE, tail |-> text, has_bold |-> FALSE, bold |-> <<>>]
InBold(text) ==
    [phrase |-> TRUE, colon |-> FALSE, tail |-> TextUnknown, has_bold |-> TRUE,
     bold |-> text]
AfterPhrase(text) ==
    [phrase |-> TRUE, colon |-> FALSE, tail |-> text, has_bold |-> FALSE, bold |-> <<>>]
OtherInfo(text) ==
    [phrase |-> FALSE, colon |-> TRUE, tail |-> text, has_bold |-> FALSE, bold |-> <<>>]

Service(h, els, r) == [heading |-> h, elements |-> els, raises |-> r]

DatedElements ==
    { <<AfterColon(TextNov7)>>,
      <<AfterColon(TextJan2)>>,
      <<AfterColon(TextDec31)>>,
      <<OtherInfo(TextDec31), AfterColon(TextUnknown), InBold(TextJan2)>> }

Services ==
    {Service(h, els, FALSE) : h \in {"Food waste", "Garden waste"}, els \in DatedElements}
    \cup { Service("Garden waste", <<AfterPhrase(<<Pre(1)>> \o TextNov7),
                                     AfterColon(TextJan2)>>, FALSE),
           Service("Food waste", <<AfterColon(TextUnknown)>>, FALSE),
           Service("Food waste", <<>>, FALSE),
           Service("none", <<AfterColon(TextNov7)>>, FALSE),
           Service("", <<AfterColon(TextJan2)>>, FALSE),
           Service("Food waste", <<AfterColon(TextNov7)>>, TRUE),
           Service(NoiseHeading, <<AfterColon(TextNov7)>>, FALSE) }

MaxServices == 2

Pages ==
    {NoPage} \cup
    {[ok |-> TRUE, services |-> sv] :
        sv \in UNION {[1..n -> Services] : n \in 0..MaxServices}}

\* lines 25-33
PageStart ==
    /\ pc = "start"
    /\ IF ~kwargs.postcode /\ ~kwargs.uprn
       THEN pc' = "done" /\ outcome' = "raised"
       ELSE pc' = "create" /\ UNCHANGED outcome
    /\ UNCHANGED <<now, kwargs, driver, quits, pending, page_source, events, idx,
                   current_year, bins, raw, resolved>>

\* line 36: create_webdriver() returns a session or raises
PageCreate ==
    /\ pc = "create"
    /\ \/ /\ driver' = "open"
          /\ pc' = "get"
          /\ UNCHANGED pending
       \/ /\ pending' = TRUE
          /\ pc' = "finally"
          /\ UNCHANGED driver
    /\ UNCHANGED <<now, kwargs, quits, page_source, events, idx, current_year,
                   bins, raw, resolved, outcome>>

\* a step of the try block: it goes on to `next`, or raises into the handler
TryStep(at, next) ==
    /\ pc = at
    /\ \/ /\ pc' = next
          /\ UNCHANGED pending
       \/ /\ pending' = TRUE
          /\ pc' = "finally"
    /\ UNCHANGED <<now, kwargs, driver, quits, page_source, events, idx,
                   current_year, bins, raw, resolved, outcome>>

\* line 37
PageGet == TryStep("get", "wait_input")

\* lines 40-51: the postcode input appears, or the wait times out
PageWaitInput == TryStep("wait_input", "submit")

\* lines 54-58
PageSubmit == TryStep("submit", "address")

\* lines 61-81: options is the number of options of the address selector,
\* -1 when the wait for the selector times out
PageAddress ==
    /\ pc = "address"
    /\ \E options \in -1..2 :
          \/ /\ options = -1
             /\ pc' = "anchor"
             /\ UNCHANGED pending
          \/ /\ options > 1
             /\ \/ pc' = "anchor" /\ UNCHANGED pending
                \/ pc' = "finally" /\ pending' = TRUE
          \/ /\ options \in 0..1
             /\ pc' = "finally"
             /\ pending' = TRUE
    /\ UNCHANGED <<now, kwargs, driver, quits, page_source, events, idx,
                   current_year, bins, raw, resolved, outcome>>

\* lines 84-92: the schedule anchor appears and the page is read, or times out
PageAnchor ==
    /\ pc = "anchor"
    /\ \/ /\ page_source' \in Pages
          /\ UNCHANGED pending
       \/ /\ pending' = TRUE
          /\ UNCHANGED page_source
    /\ pc' = "finally"
    /\ UNCHANGED <<now, kwargs, driver, quits, events, idx, current_year, bins,
                   raw, resolved, outcome>>

\* mutant: the session is quit on the success path only
PageFinally_QuitOnSuccess ==
    /\ pc = "finally"
    /\ IF driver = "open" /\ ~pending
       THEN driver' = "quit" /\ quits' = quits + 1
       ELSE UNCHANGED <<driver, quits>>
    /\ IF pending
       THEN pc' = "done" /\ outcome' = "raised"
       ELSE pc' = "soup" /\ UNCHANGED outcome
    /\ UNCHANGED <<now, kwargs, pending, page_source, events, idx, current_year,
                   bins, raw, resolved>>

\* lines 94-100: the handler re-raises; finally quits the session if there is
\* one (quit itself may raise)
PageFinally ==
    /\ pc = "finally"
    /\ IF driver = "open"
       THEN driver' = "quit" /\ quits' = quits + 1
       ELSE UNCHANGED <<driver, quits>>
    /\ \/ /\ pending
          /\ pc' = "done"
          /\ outcome' = "raised"
       \/ /\ ~pending
          /\ pc' = "soup"
          /\ UNCHANGED outcome
       \/ /\ driver = "open"
          /\ pc' = "done"
          /\ outcome' = "raised"
    /\ UNCHANGED <<now, kwargs, pending, page_source, events, idx, current_year,
                   bins, raw, resolved>>

\* lines 102-129
PageSoup ==
    /\ pc = "soup"
    /\ IF ~page_source.ok \/ page_source.services = <<>>
       THEN /\ pc' = "done"
            /\ outcome' = "raised"
            /\ UNCHANGED <<idx, current_year>>
       ELSE /\ pc' = "loop"
            /\ idx' = 1
            /\ current_year' = now.year
            /\ UNCHANGED outcome
    /\ UNCHANGED <<now, kwargs, driver, quits, pending, page_source, events,
                   bins, raw, resolved>>

\* mutant: an exception in one container ends the whole call
PageService_Abort ==
    /\ pc = "loop"
    /\ idx <= Len(page_source.services)
    /\ IF page_source.services[idx].raises
       THEN /\ pc' = "done"
            /\ outcome' = "raised"
            /\ UNCHANGED <<bins, idx>>
       ELSE /\ bins' = bins \o ServiceRecords(page_source.services[idx],
                                              current_year, now)
            /\ idx' = idx + 1
            /\ UNCHANGED <<pc, outcome>>
    /\ UNCHANGED <<now, kwargs, driver, quits, pending, page_source, events,
                   current_year, raw, resolved>>

\* lines 131-213, one container
PageService ==
    /\ pc = "loop"
    /\ idx <= Len(page_source.services)
    /\ bins' = bins \o ServiceRecords(page_source.services[idx], current_year, now)
    /\ idx' = idx + 1
    /\ UNCHANGED <<pc, now, kwargs, driver, quits, pending, page_source, events,
                   current_year, raw, resolved, outcome>>

\* mutant: the emptiness check is missing
PageFinish_ReturnsEmpty ==
    /\ pc = "loop"
    /\ idx > Len(page_source.services)
    /\ pc' = "done"
    /\ outcome' = "returned"
    /\ bins' = IF SortKeysOk(bins) THEN SortBins(bins) ELSE bins
    /\ UNCHANGED <<now, kwargs, driver, quits, pending, page_source, events, idx,
                   current_year, raw, resolved>>

\* lines 215-225: a failing sort leaves the list as it is
PageFinish ==
    /\ pc = "loop"
    /\ idx > Len(page_source.services)
    /\ pc' = "done"
    /\ IF bins = <<>>
       THEN outcome' = "raised" /\ UNCHANGED bins
       ELSE /\ outcome' = "returned"
            /\ bins' = IF SortKeysOk(bins) THEN SortBins(bins) ELSE bins
    /\ UNCHANGED <<now, kwargs, driver, quits, pending, page_source, events, idx,
                   current_year, raw, resolved>>

NextPage ==
    \/ PageStart
    \/ PageCreate
    \/ PageGet
    \/ PageWaitInput
    \/ PageSubmit
    \/ PageAddress
    \/ PageAnchor
    \/ PageFinally
    \/ PageSoup
    \/ PageService
    \/ PageFinish

----------------------------------------------------------------------------
(* SpecResolve: the date resolver applied to one date text *)

ResolveDays   == {1, 7, 29, 31}
ResolveMonths == {1, 2, 11, 12}
ResolveYears  == {2023, 2024, 2025}

\* the layouts a date is written in on the page
Written(d, m, y) ==
    { <<Friday, Num(d), Mon(m), Num(y)>>,
      <<Friday, Num(d), Mon(m)>>,
      <<Num(d), Mon(m), Num(y)>>,
      <<Num(d), Mon(m)>>,
      <<Num(d), Slash, Num(m), Slash, Num(y)>>,
      <<Num(d), Dash, Num(m), Dash, Num(y)>>,
      <<Num(d), Slash, Num(m)>> }

PlainDateTexts ==
    UNION {Written(d, m, y) : d \in ResolveDays, m \in ResolveMonths, y \in ResolveYears}

DateTexts ==
    PlainDateTexts
    \cup {<<Pre(1)>> \o t : t \in PlainDateTexts}
    \cup {<<Pre(2), Pre(1)>> \o t : t \in Written(7, 11, 2024)}
    \cup {<<>>, <<Word(3)>>, <<Word(4)>>, <<Pre(3)>>}

Clocks ==
    { DateTime(2024, 2, 29, 1), DateTime(2024, 11, 1, 1), DateTime(2024, 11, 7, 0),
      DateTime(2024, 11, 7, 1), DateTime(2024, 12, 31, 1), DateTime(2025, 1, 1, 0) }

InitResolve ==
    /\ pc = "resolve"
    /\ now \in Clocks
    /\ current_year = now.year
    /\ raw \in DateTexts
    /\ resolved = NoResult
    /\ kwargs = NoKwargs
    /\ driver = "none"
    /\ quits = 0
    /\ pending = FALSE
    /\ page_source = NoPage
    /\ events = <<>>
    /\ idx = 0
    /\ bins = <<>>
    /\ outcome = "none"

\* lines 174-197 on one date text
ResolveDate ==
    /\ pc = "resolve"
    /\ resolved' = ParseDateText(StripPrefixes(raw, 1), current_year, now)
    /\ pc' = "resolved"
    /\ UNCHANGED <<now, kwargs, driver, quits, pending, page_source, events, idx,
                   current_year, bins, raw, outcome>>

NextResolve == ResolveDate

SpecResolve == InitResolve /\ [][NextResolve]_vars

\* the date text as the format loop sees it
StrippedRaw == StripPrefixes(raw, 1)

ExplicitYear(text) ==
    /\ text # <<>>
    /\ text[Len(text)].k = "num"
    /\ text[Len(text)].v >= 1000

\* C3 (as claimed): a date text without a year resolves to next year when its
\* month/day is strictly earlier than today's, and to the current year when its
\* month/day is on or after today's, today itself included at any time of day.
C3_YearRollover ==
    (pc = "resolved" /\ resolved.ok /\ ~ExplicitYear(StrippedRaw)) =>
        IF \/ resolved.dt.month < now.month
           \/ resolved.dt.month = now.month /\ resolved.dt.day < now.day
        THEN resolved.dt.year = now.year + 1
        ELSE resolved.dt.year = now.year

\* C4: a date text with an explicit year resolves to exactly the year, month
\* and day written, also when that date lies before today.
C4_ExplicitYearKept ==
    (pc = "resolved" /\ resolved.ok /\ ExplicitYear(StrippedRaw)) =>
        /\ resolved.dt.year = StrippedRaw[Len(StrippedRaw)].v
        /\ \E d \in ResolveDays, m \in ResolveMonths :
              /\ resolved.dt.day = d
              /\ resolved.dt.month = m
              /\ StrippedRaw \in Written(d, m, resolved.dt.year)

C4_Witness ==
    /\ pc = "resolved"
    /\ resolved.ok
    /\ ExplicitYear(StrippedRaw)
    /\ resolved.dt.year < now.year

----------------------------------------------------------------------------
(* Spec: one parse_data call of either variant.  The clock does not move    *)
(* during a call: every datetime.now() of the call reads the same instant.  *)

RunClocks ==
    {DateTime(2024, 11, 1, 1), DateTime(2024, 11, 7, 1), DateTime(2024, 11, 10, 1)}

InitRun ==
    /\ now \in RunClocks
    /\ current_year = 0
    /\ driver = "none"
    /\ quits = 0
    /\ pending = FALSE
    /\ page_source = NoPage
    /\ events = <<>>
    /\ idx = 0
    /\ bins = <<>>
    /\ raw = <<>>
    /\ resolved = NoResult
    /\ outcome = "none"

InitIcs ==
    /\ pc = "ics_fetch"
    /\ kwargs = NoKwargs
    /\ InitRun

InitPage ==
    /\ pc = "start"
    /\ kwargs \in [postcode : BOOLEAN, uprn : BOOLEAN]
    /\ InitRun

Init == InitIcs \/ InitPage

Next == NextIcs \/ NextPage

SpecIcs == InitIcs /\ [][NextIcs]_vars

SpecPage == InitPage /\ [][NextPage]_vars

Spec == Init /\ [][Next]_vars

----------------------------------------------------------------------------
(* Properties *)

Services_   == page_source.services
Returned    == outcome = "returned"

\* the loop of the running call has gone through all its candidates
LoopDone == pc = "done" /\ idx > Len(events) + Len(Services_)

DateOnly(dt) == [dt EXCEPT !.tod = 0]

OnOrAfterToday(event) == ~Before(DateOnly(event.begin), DateOnly(now))

\* a container with a heading text and a "next collection" date that parses,
\* whose processing raises nothing
GoodService(service) ==
    /\ service.heading \notin {"none", ""}
    /\ ~service.raises
    /\ \E i \in 1..Len(service.elements) :
          ElementDate(service.elements[i], now.year, now).ok

ExpectedRecord(service) ==
    BinRecord(service.heading, NextCollectionDate(service.elements, now.year, now).dt)

\* C1: a call ends by returning a non-empty "bins" list or by raising; input
\* without any candidate (no upcoming event, no usable container) raises.
C1_NeverEmptySuccess ==
    /\ Returned => bins # <<>>
    /\ pc = "done" <=> outcome \in {"returned", "raised"}
    /\ ( /\ LoopDone
         /\ \A i \in 1..Len(events) : ~OnOrAfterToday(events[i])
         /\ \A i \in 1..Len(Services_) : ~GoodService(Services_[i]) )
       => outcome = "raised"

C1_Witness ==
    /\ LoopDone
    /\ Len(Services_) = 2
    /\ \A i \in 1..Len(Services_) : ~GoodService(Services_[i])
    /\ outcome = "raised"

\* C2 (as claimed): no two entries of a returned "bins" list share a type.
C2_UniqueByType ==
    Returned => \A i, j \in 1..Len(bins) : i # j => bins[i].type # bins[j].type

\* the closed vocabulary of bin types of rendered pages
AllowedBinTypes == {"Food waste", "Garden waste"}

\* C5 (as claimed): every record of a rendered-page result has an allow-listed
\* bin type; other headings produce no record.
C5_AllowListedTypes ==
    (Returned /\ page_source.ok) =>
        \A i \in 1..Len(bins) : bins[i].type \in AllowedBinTypes

EndsWith(s, suffix) ==
    /\ Len(s) >= Len(suffix)
    /\ SubSeq(s, Len(s) - Len(suffix) + 1, Len(s)) = suffix

\* the event name with only a trailing " collection" removed, trimmed
TrailingSuffixStripped(name) ==
    Strip(IF EndsWith(name, CollectionSuffix)
          THEN SubSeq(name, 1, Len(name) - Len(CollectionSuffix))
          ELSE name)

\* C6 (as claimed): the type of a record is the event name with only a
\* trailing " collection" removed; other occurrences stay in place.
C6_OnlyTrailingSuffixRemoved ==
    (pc = "ics_loop" /\ idx > 1 /\ OnOrAfterToday(events[idx - 1])) =>
        bins[Len(bins)].type = TrailingSuffixStripped(events[idx - 1].name)

\* C7: the records are exactly the events dated today or later, one each.
C7_UpcomingEventsOnly ==
    (pc \in {"ics_loop", "done"} /\ idx >= 1) =>
        /\ Len(bins) = Cardinality({i \in 1..(idx - 1) : OnOrAfterToday(events[i])})
        /\ \A i \in 1..(idx - 1) :
              OnOrAfterToday(events[i]) =>
                  \E j \in 1..Len(bins) :
                      bins[j].collectionDate = Strftime(events[i].begin)
        /\ \A j \in 1..Len(bins) :
              \E i \in 1..(idx - 1) :
                  /\ OnOrAfterToday(events[i])
                  /\ bins[j].collectionDate = Strftime(events[i].begin)

C7_Witness ==
    /\ Returned
    /\ Len(events) = 2
    /\ events[1].name = events[2].name
    /\ ~OnOrAfterToday(events[1])
    /\ DateOnly(events[2].begin) = DateOnly(now)
    /\ events[2].begin # now
    /\ Len(bins) = 1

RECURSIVE IcsDiscovered(_)
IcsDiscovered(evs) ==
    IF evs = <<>> THEN <<>>
    ELSE (IF OnOrAfterToday(Head(evs))
          THEN <<BinRecord(BinTypeOf(Head(evs).name), Head(evs).begin)>>
          ELSE <<>>) \o IcsDiscovered(Tail(evs))

RECURSIVE PageDiscovered(_)
PageDiscovered(svs) ==
    IF svs = <<>> THEN <<>>
    ELSE (IF GoodService(Head(svs)) THEN <<ExpectedRecord(Head(svs))>> ELSE <<>>)
         \o PageDiscovered(Tail(svs))

\* the records in the order the loop found them
Discovered == IcsDiscovered(events) \o PageDiscovered(Services_)

\* the calendar date a record's collectionDate string denotes
DateOf(record) ==
    DateTime(record.collectionDate[5].v, record.collectionDate[3].v,
             record.collectionDate[1].v, 0)

OnDate(seq, d) ==
    LET Same(x) == x.collectionDate = d IN SelectSeq(seq, Same)

\* C8: a returned "bins" list ascends by collection date, and the records of
\* one date keep the order in which they were found.
C8_SortedStable ==
    Returned =>
        /\ \A i, j \in 1..Len(bins) :
              i < j => ~Before(DateOf(bins[j]), DateOf(bins[i]))
        /\ \A i \in 1..Len(bins) :
              OnDate(bins, bins[i].collectionDate)
                  = OnDate(Discovered, bins[i].collectionDate)
        /\ Len(bins) = Len(Discovered)

C8_Witness ==
    /\ Returned
    /\ bins # Discovered
    /\ \E i \in 1..Len(bins) : bins[i].collectionDate[5] # bins[1].collectionDate[5]

\* C9: a container without a heading, without a date that parses, or whose
\* processing raises is skipped without ending the batch; every other
\* container yields its record.
C9_PartialFailureTolerance ==
    (page_source.ok /\ pc \in {"loop", "done"} /\ idx >= 1) =>
        /\ pc = "done" => idx > Len(Services_)
        /\ Len(bins) = Cardinality({i \in 1..(idx - 1) : GoodService(Services_[i])})
        /\ \A i \in 1..(idx - 1) :
              GoodService(Services_[i]) =>
                  \E j \in 1..Len(bins) : bins[j] = ExpectedRecord(Services_[i])

C9_Witness ==
    /\ Returned
    /\ Len(Services_) = 2
    /\ Services_[1].raises
    /\ GoodService(Services_[2])
    /\ bins = <<ExpectedRecord(Services_[2])>>

\* C10: a created browser session is quit exactly once before the call ends
\* and before anything is parsed from the page; without postcode and UPRN the
\* call raises and no session is ever created.
C10_SessionReleased ==
    /\ quits <= 1
    /\ driver = "quit" <=> quits = 1
    /\ pc = "done" => driver # "open"
    /\ (pc \in {"soup", "loop"} \/ bins # <<>>) => driver = "quit"
    /\ (~kwargs.postcode /\ ~kwargs.uprn) =>
          /\ driver = "none"
          /\ pc \in {"start", "done"}
          /\ pc = "done" => outcome = "raised"

C10_Witness ==
    /\ pc = "done"
    /\ outcome = "raised"
    /\ pending
    /\ page_source = NoPage
    /\ quits = 1

====
